---- MODULE Spec2Model ----
(***************************************************************************)
(* Model of scripts/mario_expert.py: the tile-grid feature extractors, the *)
(* rule cascade and oscillation guard of MarioExpert.choose_action, and    *)
(* the button protocol of MarioController.run_action.                      *)
(***************************************************************************)
EXTENDS Integers, Sequences, FiniteSets, TLC

(* ---------------- Sprites (IntEnum) ---------------- *)
AIR == 0
MARIO == 1
BLOCK == 10
MOVING_PLATFORM == 11
BRICK == 12
POWERUP_BLOCK == 13
PIPE == 14
GOOMBA == 15
KOOPA == 16
FLY == 18
BEE == 19
SHELL == 25

(* ---------------- Actions (IntEnum); NoAction is Python's None ---------- *)
NoAction == 0
LEFT == 1
RIGHT == 2
UP == 3
JUMP == 4
SPRINT == 5

(* The game area of Super Mario Land is 16 rows by 20 columns of tiles.    *)
Rows == 16
Cols == 20
(* literal 15 of the boundary check, and of the lowest row in get_pit_info *)
Edge == 15
BottomRow == 15

(* ---------------- Python / numpy indexing ---------------- *)
(* An index i on an axis of length n is valid for -n <= i < n; a negative  *)
(* valid index counts from the end; any other index raises IndexError.     *)
IndexValid(i, n) == i >= 0 - n /\ i < n
IndexOutside(i, n) == i < 0 \/ i >= n
Wrap(i, n) == IF i < 0 THEN i + n ELSE i
CanRead(x, y) == IndexValid(x, Rows) /\ IndexValid(y, Cols)
ReadsOutside(x, y) == IndexOutside(x, Rows) \/ IndexOutside(y, Cols)
Cell(g, x, y) == g[Wrap(x, Rows)][Wrap(y, Cols)]

(* Result of an extractor: err = it raised IndexError, v = the value it    *)
(* returned, oob = it read (or tried to read) an index outside 0..n-1.     *)
Ok(v, o) == [err |-> FALSE, v |-> v, oob |-> o]
IndexError == [err |-> TRUE, v |-> <<>>, oob |-> TRUE]

(* ---------------- get_mario_pos ---------------- *)
RowMajorLeq(c, d) == c[1] < d[1] \/ (c[1] = d[1] /\ c[2] <= d[2])
get_mario_pos(g) ==
    LET S == {c \in (0..Rows-1) \X (0..Cols-1) : g[c[1]][c[2]] = MARIO}
    IN  IF S = {} THEN <<0, 0>>
        ELSE LET f == CHOOSE c \in S : \A d \in S : RowMajorLeq(c, d)
             IN  <<f[1] + 1, f[2] + 1>>

(* ---------------- get_is_airborne ---------------- *)
get_is_airborne(g, pos) ==
    IF ~CanRead(pos[1] + 1, pos[2]) THEN IndexError
    ELSE Ok(Cell(g, pos[1] + 1, pos[2]) = AIR, ReadsOutside(pos[1] + 1, pos[2]))

(* ---------------- get_enemy_info ---------------- *)
(* rows mx, mx-1, .., 1 in that order; in a row, columns my, .., cols-1.   *)
(* Every index is in 1..mx and my..cols-1: inside the grid for an anchor   *)
(* that passed the boundary check.                                         *)
Least(S) == CHOOSE i \in S : \A j \in S : i <= j
IsEnemyCode(val) == val >= GOOMBA
RECURSIVE EnemyScan(_, _, _, _)
EnemyScan(g, mx, my, xoffset) ==
    IF xoffset >= mx THEN Ok(<<100, 100, 100>>, FALSE)
    ELSE LET x == mx - xoffset
             hits == {yoffset \in 0..(Cols - my - 1) : IsEnemyCode(g[x][my + yoffset])}
         IN  IF hits = {} THEN EnemyScan(g, mx, my, xoffset + 1)
             ELSE Ok(<<mx - x, Least(hits), g[x][my + Least(hits)]>>, FALSE)
get_enemy_info(g, pos) == EnemyScan(g, pos[1], pos[2], 0)

(* ---------------- get_obstacle_info ---------------- *)
IsObstacleCode(val) == val = BRICK \/ val = PIPE \/ val = BLOCK
(* while game_area[x][col] != AIR: x -= 1 *)
RECURSIVE ClimbToAir(_, _, _, _)
ClimbToAir(g, x, col, o) ==
    IF ~CanRead(x, col) THEN IndexError
    ELSE IF Cell(g, x, col) # AIR THEN ClimbToAir(g, x - 1, col, o \/ ReadsOutside(x, col))
    ELSE Ok(x, o \/ ReadsOutside(x, col))
ObstacleHeight(mx, x) == mx - x + 1
RECURSIVE ObstacleScan(_, _, _, _, _)
ObstacleScan(g, mx, my, y, o) ==
    IF y >= 6 THEN Ok(<<100, 100>>, o)
    ELSE IF ~CanRead(mx, my + y) THEN IndexError
    ELSE IF IsObstacleCode(Cell(g, mx, my + y))
         THEN LET top == ClimbToAir(g, mx, my + y, o \/ ReadsOutside(mx, my + y))
              IN  IF top.err THEN IndexError
                  ELSE Ok(<<y, ObstacleHeight(mx, top.v)>>, top.oob)
         ELSE ObstacleScan(g, mx, my, y + 1, o \/ ReadsOutside(mx, my + y))
get_obstacle_info(g, pos) == ObstacleScan(g, pos[1], pos[2], 0, FALSE)

(* ---------------- get_platform_above ---------------- *)
IsPlatformCode(val) == val = BRICK \/ val = BLOCK
(* the two neighbours the condition reads after the cell itself *)
PlatformUpRow(x) == x - 1
PlatformLeftCol(c) == c - 1
(* variant: the left neighbour alone decides, the cell above is not read *)
PlatformConditionLeftOnly(g, x, c) ==
    /\ IsPlatformCode(Cell(g, x, c))
    /\ Cell(g, x, PlatformLeftCol(c)) = AIR
PlatformCondition(g, x, c) ==
    /\ IsPlatformCode(Cell(g, x, c))
    /\ Cell(g, PlatformUpRow(x), c) = AIR
    /\ Cell(g, x, PlatformLeftCol(c)) = AIR
(* indices the condition reads at (x, c), with the short-circuit of `and` *)
PlatformConditionReadsOutside(g, x, c) ==
    \/ ReadsOutside(x, c)
    \/ /\ IsPlatformCode(Cell(g, x, c))
       /\ \/ ReadsOutside(PlatformUpRow(x), c)
          \/ /\ Cell(g, PlatformUpRow(x), c) = AIR
             /\ ReadsOutside(x, PlatformLeftCol(c))
(* for y in range(6): y += 1; for x in range(mx - 1): ...                  *)
RECURSIVE PlatformScan(_, _, _, _, _)
PlatformScan(g, mx, my, y, o) ==
    IF y > 6 THEN Ok(<<100, 100>>, o)
    ELSE IF mx - 1 <= 0 THEN PlatformScan(g, mx, my, y + 1, o)
    ELSE IF ~IndexValid(my + y, Cols) THEN IndexError
    ELSE LET c == my + y
             hits == {x \in 0..(mx - 2) : PlatformCondition(g, x, c)}
             last == IF hits = {} THEN mx - 2 ELSE Least(hits)
             o1 == o \/ \E x \in 0..last : PlatformConditionReadsOutside(g, x, c)
         IN  IF hits = {} THEN PlatformScan(g, mx, my, y + 1, o1)
             ELSE Ok(<<mx - Least(hits), y>>, o1)
get_platform_above(g, pos) == PlatformScan(g, pos[1], pos[2], 1, FALSE)

(* ---------------- get_pit_info ---------------- *)
(* Rows mx + 1 and 15 and columns my..cols-1 are inside the grid for an    *)
(* anchor that passed the boundary check.                                  *)
IsPitEdgeCode(val) == val >= BLOCK /\ val <= PIPE
(* for a in range(rows): for boffset in range(cols - y): first match *)
RECURSIVE FarEdgeScan(_, _, _)
FarEdgeScan(g, y, a) ==
    IF a >= Rows THEN <<>>
    ELSE LET hits == {b \in y..(Cols - 1) : IsPitEdgeCode(g[a][b])}
         IN  IF hits = {} THEN FarEdgeScan(g, y, a + 1) ELSE <<a, Least(hits)>>
IsPitColumn(g, mx, y) == g[mx + 1][y] = AIR /\ g[BottomRow][y] = AIR
RECURSIVE PitScan(_, _, _, _)
PitScan(g, mx, my, yoffset) ==
    IF yoffset >= Cols - my THEN Ok(<<100, 100, 100>>, FALSE)
    ELSE LET y == my + yoffset
         IN  IF ~IsPitColumn(g, mx, y) THEN PitScan(g, mx, my, yoffset + 1)
             ELSE LET e == FarEdgeScan(g, y, 0)
                  IN  IF e = <<>> THEN PitScan(g, mx, my, yoffset + 1)
                      ELSE Ok(<<yoffset, mx - e[1], e[2] - my>>, FALSE)
get_pit_info(g, pos) == PitScan(g, pos[1], pos[2], 0)

(* ---------------- get_pythag_dist: ceil(sqrt(a^2 + b^2)) ---------------- *)
Max(a, b) == IF a >= b THEN a ELSE b
RECURSIVE CeilSqrtFrom(_, _)
CeilSqrtFrom(n, k) == IF k * k >= n THEN k ELSE CeilSqrtFrom(n, k + 1)
get_pythag_dist(a, b) == CeilSqrtFrom(a * a + b * b, 0)

(* ---------------- choose_action ---------------- *)
(* The five extractors, called in the order of lines 219-223.              *)
Observe(g, pos) ==
    [enemy_info    |-> get_enemy_info(g, pos),
     pit_info      |-> get_pit_info(g, pos),
     obstacle_info |-> get_obstacle_info(g, pos),
     is_airborne   |-> get_is_airborne(g, pos),
     platform      |-> get_platform_above(g, pos)]
ObserveRaises(ob) ==
    \/ ob.enemy_info.err
    \/ ob.pit_info.err
    \/ ob.obstacle_info.err
    \/ ob.is_airborne.err
    \/ ob.platform.err
ObserveReadsOutside(ob) ==
    \/ ob.enemy_info.oob
    \/ ob.pit_info.oob
    \/ ob.obstacle_info.oob
    \/ ob.is_airborne.oob
    \/ ob.platform.oob

(* variant: the column is tested against the grid's last column *)
BoundaryCheckLastColumn(pos) == pos[1] >= Edge \/ pos[2] >= Cols - 1
BoundaryCheck(pos) == pos[1] >= Edge \/ pos[2] >= Edge

Selection(a, d, r) == [action |-> a, duration |-> d, rule |-> r]

ObstacleRule(obstacle_info, is_airborne) ==
    obstacle_info[1] < 3 /\ is_airborne = FALSE
PlatformRule(platform, obstacle_info) ==
    platform[2] < 6 /\ platform[1] < 6 /\ platform[1] # obstacle_info[1]
PlatformDuration(platform, pit_info) ==
    IF pit_info[1] < platform[2] THEN platform[1] * 3 + 10 ELSE platform[1] * 3
GroundEnemyRule(enemy_info) == enemy_info[3] < 18 /\ enemy_info[2] < 2
(* variant: the jump is chosen whatever the previous action was *)
GroundEnemyAlwaysJump(prev) == Selection(JUMP, 1, 4)
GroundEnemySelect(prev) ==
    IF prev = JUMP THEN Selection(LEFT, 1, 4) ELSE Selection(JUMP, 1, 4)
FlyRule(enemy_info) == enemy_info[3] = 19 /\ enemy_info[2] < 4
PitRule(pit_info, is_airborne) == pit_info[1] < 2 /\ is_airborne = FALSE

(* the if / elif chain of lines 225-264; rule numbers as in the cascade:   *)
(* 2 obstacle, 3 platform, 4 ground enemy, 5 fly, 6 pit, 7 default         *)
Cascade(enemy_info, pit_info, obstacle_info, is_airborne, platform, prev) ==
    IF ObstacleRule(obstacle_info, is_airborne)
    THEN Selection(JUMP, obstacle_info[2] * 2, 2)
    ELSE IF PlatformRule(platform, obstacle_info)
    THEN Selection(JUMP, PlatformDuration(platform, pit_info), 3)
    ELSE IF GroundEnemyRule(enemy_info)
    THEN GroundEnemySelect(prev)
    ELSE IF FlyRule(enemy_info)
    THEN Selection(JUMP, enemy_info[1] + 10, 5)
    ELSE IF PitRule(pit_info, is_airborne)
    THEN Selection(JUMP, get_pythag_dist(Max(4, pit_info[2]), pit_info[3]), 6)
    ELSE Selection(RIGHT, 1, 7)

(* lines 266-270 *)
(* variant: the selection is passed through unchanged *)
OscillationGuardOff(sel, prev) == [action |-> sel.action, duration |-> sel.duration]
OscillationGuard(sel, prev) ==
    IF prev = sel.action /\ sel.action = JUMP
    THEN [action |-> RIGHT, duration |-> 1]
    ELSE [action |-> sel.action, duration |-> sel.duration]

(* What one call of choose_action does on grid g with self.prev_action =   *)
(* prev: it raises, or returns (action, duration) leaving prev_action as   *)
(* given here; selected is the cascade's choice before the guard, obs what *)
(* the call read from the grid (mario_pos and the five observations).      *)
NoObs == [pos |-> <<0, 0>>, seen |-> FALSE]
Seen(pos, ob) ==
    [pos |-> pos, seen |-> TRUE, enemy_info |-> ob.enemy_info, pit_info |-> ob.pit_info,
     obstacle_info |-> ob.obstacle_info, is_airborne |-> ob.is_airborne,
     platform |-> ob.platform]
BoundaryReturn(pos, prev) ==
    [raised |-> FALSE, action |-> RIGHT, duration |-> 1, prev_action |-> prev,
     selected |-> NoAction, rule |-> 1, obs |-> [pos |-> pos, seen |-> FALSE]]
(* variant: the guarded return leaves prev_action as it was *)
GuardedReturnKeepsPrev(sel, prev, o) ==
    LET out == OscillationGuard(sel, prev)
    IN  [raised |-> FALSE, action |-> out.action, duration |-> out.duration,
         prev_action |-> prev, selected |-> sel.action, rule |-> sel.rule,
         obs |-> o]
GuardedReturn(sel, prev, o) ==
    LET out == OscillationGuard(sel, prev)
    IN  [raised |-> FALSE, action |-> out.action, duration |-> out.duration,
         prev_action |-> out.action, selected |-> sel.action, rule |-> sel.rule,
         obs |-> o]
Raise(prev, o) ==
    [raised |-> TRUE, action |-> NoAction, duration |-> 0, prev_action |-> prev,
     selected |-> NoAction, rule |-> 0, obs |-> o]
choose_action(g, prev) ==
    LET pos == get_mario_pos(g)
    IN  IF BoundaryCheck(pos) THEN BoundaryReturn(pos, prev)
        ELSE LET ob == Observe(g, pos)
             IN  IF ObserveRaises(ob) THEN Raise(prev, Seen(pos, ob))
                 ELSE GuardedReturn(
                        Cascade(ob.enemy_info.v, ob.pit_info.v, ob.obstacle_info.v,
                                ob.is_airborne.v, ob.platform.v, prev),
                        prev, Seen(pos, ob))

(* ---------------- run_action ---------------- *)
(* valid_actions / release_button, indexed by Actions.value (0-based)      *)
valid_actions ==
    <<"PRESS_ARROW_DOWN", "PRESS_ARROW_LEFT", "PRESS_ARROW_RIGHT",
      "PRESS_ARROW_UP", "PRESS_BUTTON_A", "PRESS_BUTTON_B">>
release_button ==
    <<"RELEASE_ARROW_DOWN", "RELEASE_ARROW_LEFT", "RELEASE_ARROW_RIGHT",
      "RELEASE_ARROW_UP", "RELEASE_BUTTON_A", "RELEASE_BUTTON_B">>
ValidAction(a) == valid_actions[a + 1]
ReleaseButton(a) == release_button[a + 1]
TICK == "TICK"

RECURSIVE Ticks(_)
Ticks(n) == IF n <= 0 THEN <<>> ELSE <<TICK>> \o Ticks(n - 1)

(* the three branches of run_action: the calls it makes on pyboy, in order *)
(* variant: the jump branch leaves RIGHT pressed *)
JumpBranchKeepsRight(freq, d) ==
    <<ValidAction(RIGHT), ValidAction(SPRINT), ValidAction(JUMP)>>
    \o Ticks(freq * d)
    \o <<ReleaseButton(JUMP), ReleaseButton(SPRINT)>>
JumpBranch(freq, d) ==
    <<ValidAction(RIGHT), ValidAction(SPRINT), ValidAction(JUMP)>>
    \o Ticks(freq * d)
    \o <<ReleaseButton(JUMP), ReleaseButton(SPRINT), ReleaseButton(RIGHT)>>
RightBranch(freq, d) ==
    <<ValidAction(RIGHT), ValidAction(SPRINT)>>
    \o Ticks(freq * d)
    \o <<ReleaseButton(SPRINT), ReleaseButton(RIGHT)>>
ElseBranch(a, freq, d) ==
    <<ValidAction(a)>> \o Ticks(freq * d) \o <<ReleaseButton(a)>>
run_action(a, freq, d) ==
    IF a = JUMP THEN JumpBranch(freq, d)
    ELSE IF a = RIGHT THEN RightBranch(freq, d)
    ELSE ElseBranch(a, freq, d)

(* pyboy's button state after one send_input *)
ButtonOf(e) ==
    CASE e \in {"PRESS_ARROW_DOWN", "RELEASE_ARROW_DOWN"} -> "DOWN"
      [] e \in {"PRESS_ARROW_LEFT", "RELEASE_ARROW_LEFT"} -> "LEFT"
      [] e \in {"PRESS_ARROW_RIGHT", "RELEASE_ARROW_RIGHT"} -> "RIGHT"
      [] e \in {"PRESS_ARROW_UP", "RELEASE_ARROW_UP"} -> "UP"
      [] e \in {"PRESS_BUTTON_A", "RELEASE_BUTTON_A"} -> "A"
      [] e \in {"PRESS_BUTTON_B", "RELEASE_BUTTON_B"} -> "B"
IsPress(e) == \E i \in 1..Len(valid_actions) : valid_actions[i] = e
IsRelease(e) == \E i \in 1..Len(release_button) : release_button[i] = e
send_input(h, e) ==
    IF IsPress(e) THEN h \cup {ButtonOf(e)}
    ELSE IF IsRelease(e) THEN h \ {ButtonOf(e)}
    ELSE h

(* ---------------- tile grids offered by the environment ---------------- *)
(* A scene is a screen of the game: the 2 x 2 player sprite with its       *)
(* top-left tile at m (or no player), solid ground from the row under the  *)
(* player's feet down, an optional pit (columns of air down to the bottom  *)
(* row) starting pit columns ahead of the anchor, and a few extra tiles    *)
(* placed at offsets (rows up, columns ahead) from the anchor.             *)
MaxUp == 3
MaxAhead == 3
PitWidth == 2
NoMarioGround == 14
NoMario == <<0 - 1, 0 - 1>>
NoPit == 0 - 1
HomeSpot == <<12, 5>>
TopSpot == <<1, 3>>
EdgeSpots == {<<12, 14>>, <<14, 5>>}
MarioSpots ==
    {NoMario, TopSpot, HomeSpot, <<12, 13>>, <<12, 18>>, <<12, 19>>, <<15, 5>>}
    \cup EdgeSpots
Palette == {PIPE, BRICK, GOOMBA, FLY, BEE}
Offsets == (0..MaxUp) \X (0..MaxAhead)
Placements == [at : Offsets, code : Palette]

AnchorOf(m) == IF m = NoMario THEN <<0, 0>> ELSE <<m[1] + 1, m[2] + 1>>
GroundTop(m) == IF m = NoMario THEN NoMarioGround ELSE m[1] + 2
InSprite(m, r, c) ==
    m # NoMario /\ r \in {m[1], m[1] + 1} /\ c \in {m[2], m[2] + 1}
BaseScene(m, pit) ==
    LET top == GroundTop(m)
        first == AnchorOf(m)[2] + pit
    IN  [r \in 0..Rows-1 |-> [c \in 0..Cols-1 |->
            IF InSprite(m, r, c) THEN MARIO
            ELSE IF r < top THEN AIR
            ELSE IF pit # NoPit /\ c >= first /\ c < first + PitWidth THEN AIR
            ELSE BLOCK]]
RECURSIVE Place(_, _, _)
Place(g, anchor, cells) ==
    IF cells = {} THEN g
    ELSE LET p == CHOOSE q \in cells : TRUE
             r == anchor[1] - p.at[1]
             c == anchor[2] + p.at[2]
         IN  IF r \in 0..Rows-1 /\ c \in 0..Cols-1
             THEN Place([g EXCEPT ![r][c] = p.code], anchor, cells \ {p})
             ELSE Place(g, anchor, cells \ {p})
Scene(m, pit, cells) == Place(BaseScene(m, pit), AnchorOf(m), cells)

Pits == {NoPit, 0, 1}
Solid == {PIPE, BRICK}
OneCell == {{}} \cup {{p} : p \in Placements}
NearCell ==
    {{}} \cup {{p} : p \in {q \in Placements : q.at[1] < MaxUp /\ q.at[2] < MaxAhead}}
SolidPair ==
    {{p, q} : p \in {x \in Placements : x.code \in Solid},
              q \in {x \in Placements : x.code \in Solid}}
(* any spot with at most one extra tile; a pit at the usual and top spots; *)
(* two solid tiles on different cells at the usual spot                    *)
Grids ==
    {Scene(m, NoPit, cells) : m \in MarioSpots, cells \in OneCell}
    \cup {Scene(m, pit, cells) : m \in {HomeSpot, TopSpot}, pit \in {0, 1}, cells \in OneCell}
    \cup {Scene(HomeSpot, NoPit, cells) :
            cells \in {s \in SolidPair : \A p \in s, q \in s : p.at = q.at => p = q}}
(* the screens of the play loop: the usual spot over every pit, and the   *)
(* spots past the boundary, each with at most one extra tile nearby        *)
Screens ==
    {Scene(HomeSpot, pit, cells) : pit \in Pits, cells \in NearCell}
    \cup {Scene(m, NoPit, cells) : m \in EdgeSpots, cells \in NearCell}
PrevActions == {NoAction, LEFT, RIGHT, JUMP}

(* bounds of the run_action calls tried on their own *)
MaxActFreq == 2
MaxDuration == 3
Actions == {LEFT, RIGHT, UP, JUMP, SPRINT}

(* ---------------- state ---------------- *)
VARIABLES
    game_area,    \* the tile grid environment.game_area() returns now
    prev_action,  \* MarioExpert.prev_action
    pc,           \* where MarioExpert.step is: "choose", "run", or "raised"
    action,       \* step's local: the action choose_action returned
    duration,     \* step's local: the duration choose_action returned
    selected,     \* choose_action's local action before the guard
    rule,         \* the cascade rule that selected it (1 = boundary return)
    obs,          \* mario_pos and the observations of the latest choose_action
    last_run,     \* the action of the latest completed run_action call
    act_freq,     \* MarioController.act_freq
    held,         \* buttons the emulator holds down
    call,         \* the run_action call in progress, or NoCall
    events        \* the pyboy calls the latest run_action has made so far

vars == <<game_area, prev_action, pc, action, duration, selected, rule, obs,
          last_run, act_freq, held, call, events>>

NoCall == [action |-> NoAction, duration |-> 0]
controller == <<act_freq, held, call, events>>
expert == <<game_area, prev_action, pc, action, duration, selected, rule, obs, last_run>>

RECURSIVE SendAll(_, _)
SendAll(h, es) == IF es = <<>> THEN h ELSE SendAll(send_input(h, Head(es)), Tail(es))

(* ---------------- the play loop: step() until game over ---------------- *)
Constructed ==
    /\ prev_action = NoAction
    /\ pc = "choose"
    /\ action = NoAction
    /\ duration = 0
    /\ selected = NoAction
    /\ rule = 0
    /\ obs = NoObs
    /\ last_run = NoAction
    /\ held = {}
    /\ call = NoCall
    /\ events = <<>>

Init ==
    /\ game_area \in Screens
    /\ act_freq = 1
    /\ Constructed

(* action, duration = self.choose_action() *)
ChooseAction ==
    /\ pc = "choose"
    /\ \E r \in {choose_action(game_area, prev_action)} :
           /\ pc' = IF r.raised THEN "raised" ELSE "run"
           /\ prev_action' = r.prev_action
           /\ action' = r.action
           /\ duration' = r.duration
           /\ selected' = r.selected
           /\ rule' = r.rule
           /\ obs' = r.obs
    /\ UNCHANGED <<game_area, last_run, controller>>

(* self.environment.run_action(action, duration): the call runs to its     *)
(* end, and the emulator it ticked shows the next screen.                  *)
RunAction ==
    /\ pc = "run"
    /\ held' = SendAll(held, run_action(action, act_freq, duration))
    /\ last_run' = action
    /\ pc' = "choose"
    /\ action' = NoAction
    /\ duration' = 0
    /\ selected' = NoAction
    /\ rule' = 0
    /\ obs' = NoObs
    /\ UNCHANGED <<prev_action, act_freq, call, events>>
    /\ game_area' \in Screens

Next == ChooseAction \/ RunAction
Spec == Init /\ [][Next]_vars

(* ---------------- one decision on any grid ---------------- *)
(* choose_action applied once to each grid of Grids under each value       *)
(* prev_action takes in the play loop.                                     *)
InitGrid ==
    /\ game_area \in Grids
    /\ prev_action \in PrevActions
    /\ pc = "choose"
    /\ action = NoAction
    /\ duration = 0
    /\ selected = NoAction
    /\ rule = 0
    /\ obs = NoObs
    /\ last_run = prev_action
    /\ act_freq = 1
    /\ held = {}
    /\ call = NoCall
    /\ events = <<>>
NextGrid == ChooseAction
SpecGrid == InitGrid /\ [][NextGrid]_vars

(* ---------------- run_action, one pyboy call at a time ---------------- *)
InitCtl ==
    /\ game_area = Scene(HomeSpot, NoPit, {})
    /\ act_freq \in 1..MaxActFreq
    /\ Constructed

Program == run_action(call.action, act_freq, call.duration)
Running == call # NoCall /\ Len(events) < Len(Program)

(* environment.run_action(action, duration) is entered *)
CallRunAction ==
    /\ call = NoCall
    /\ call' \in [action : Actions, duration : 1..MaxDuration]
    /\ events' = <<>>
    /\ UNCHANGED <<expert, act_freq, held>>

(* self.pyboy.send_input(...) *)
SendInput ==
    /\ Running
    /\ Program[Len(events) + 1] # TICK
    /\ held' = send_input(held, Program[Len(events) + 1])
    /\ events' = Append(events, Program[Len(events) + 1])
    /\ UNCHANGED <<expert, act_freq, call>>

(* self.pyboy.tick() *)
Tick ==
    /\ Running
    /\ Program[Len(events) + 1] = TICK
    /\ events' = Append(events, TICK)
    /\ UNCHANGED <<expert, act_freq, call, held>>

(* run_action returns *)
ReturnRunAction ==
    /\ call # NoCall
    /\ Len(events) = Len(Program)
    /\ call' = NoCall
    /\ last_run' = call.action
    /\ UNCHANGED <<game_area, prev_action, pc, action, duration, selected, rule, obs,
                   act_freq, held, events>>

NextCtl == CallRunAction \/ SendInput \/ Tick \/ ReturnRunAction
SpecCtl == InitCtl /\ [][NextCtl]_vars

(* ======================= properties ======================= *)
Returned == pc = "run"
Decided == pc \in {"run", "raised"}
Observed == Decided /\ obs.seen

(* C1. Oscillation law: when the cycle before ran JUMP and this cycle's    *)
(* cascade selects JUMP before the guard, this cycle returns exactly       *)
(* (RIGHT, 1); so choose_action never returns JUMP in two consecutive      *)
(* cycles.                                                                 *)
C1_NoJumpAfterJump ==
    (Returned /\ last_run = JUMP) =>
        /\ action # JUMP
        /\ selected = JUMP => (action = RIGHT /\ duration = 1)
C1_Witness ==
    Returned /\ last_run = JUMP /\ selected = JUMP /\ action = RIGHT /\ duration = 1

(* C2 as stated. After every call of choose_action, also one in which the  *)
(* boundary check fires, prev_action equals the action the call returned.  *)
C2_PrevIsReturnedEveryCycle == Returned => prev_action = action
(* C2 as amended. A call that gets past the boundary check and returns     *)
(* leaves prev_action equal to the action it returns; a call in which the  *)
(* boundary check fires returns (RIGHT, 1) and leaves prev_action as it    *)
(* was before the call.                                                    *)
C2_PrevUpdatedPastBoundary ==
    [][(pc = "choose" /\ pc' = "run") =>
        IF obs'.pos[1] >= 15 \/ obs'.pos[2] >= 15
        THEN prev_action' = prev_action
        ELSE prev_action' = action']_vars
C2_Witness ==
    /\ Returned
    /\ obs.pos[2] >= 15
    /\ action = RIGHT
    /\ prev_action = JUMP
    /\ last_run = JUMP

(* C3 as stated. Boundary law: an anchor whose row or column has reached   *)
(* or passed the far edge of the grid yields exactly (RIGHT, 1), and the   *)
(* boundary rule fires only for an anchor at or beyond the far edge of the *)
(* grid's actual dimensions.                                               *)
IsPlayerCell(g, r, c) == r \in 0..Rows-1 /\ c \in 0..Cols-1 /\ g[r][c] = MARIO
IsAnchor(g, pos) ==
    IF \E r \in 0..Rows-1, c \in 0..Cols-1 : g[r][c] = MARIO
    THEN /\ IsPlayerCell(g, pos[1] - 1, pos[2] - 1)
         /\ \A r \in 0..Rows-1, c \in 0..Cols-1 :
               g[r][c] = MARIO => RowMajorLeq(<<pos[1] - 1, pos[2] - 1>>, <<r, c>>)
    ELSE pos = <<0, 0>>
AtFarEdge(pos) == pos[1] >= Rows - 1 \/ pos[2] >= Cols - 1
C3_BoundaryOnlyAtFarEdge ==
    Decided =>
        /\ AtFarEdge(obs.pos) => (Returned /\ action = RIGHT /\ duration = 1)
        /\ rule = 1 => AtFarEdge(obs.pos)
(* C3 as amended. An anchor whose row or column is 15 or more yields       *)
(* exactly (RIGHT, 1) whatever the other cells and prev_action are, which  *)
(* covers every anchor at or past the far edge of the 16 x 20 grid; and    *)
(* the boundary rule fires exactly for these anchors, so also for anchor   *)
(* columns 15..18, short of the grid's last column.                        *)
C3_BoundaryAtFifteen ==
    Decided =>
        /\ (obs.pos[1] >= 15 \/ obs.pos[2] >= 15) <=> rule = 1
        /\ rule = 1 => (Returned /\ action = RIGHT /\ duration = 1 /\ selected = NoAction)
        /\ AtFarEdge(obs.pos) => rule = 1
        /\ IsAnchor(game_area, obs.pos)
C3_Witness ==
    /\ Returned
    /\ rule = 1
    /\ obs.pos = <<13, 15>>
    /\ last_run = JUMP
    /\ action = RIGHT
    /\ duration = 1
    /\ \E r \in 0..Rows-1, c \in 0..Cols-1 : game_area[r][c] = GOOMBA

(* C4. No extractor reads a cell whose row index is outside 0..rows-1 or   *)
(* whose column index is outside 0..cols-1 (a negative index counts as     *)
(* outside), and none raises: a scan that would pass an edge returns the   *)
(* sentinel.                                                               *)
C4_ExtractorsStayInside ==
    Observed =>
        /\ ~obs.enemy_info.oob
        /\ ~obs.pit_info.oob
        /\ ~obs.obstacle_info.oob
        /\ ~obs.is_airborne.oob
        /\ ~obs.platform.oob
        /\ pc # "raised"

(* C5. Obstacle hop: past the boundary check, grounded, the cycle before   *)
(* not JUMP, and the nearest solid obstacle at the anchor's row fewer than *)
(* 3 columns ahead, choose_action returns (JUMP, 2 * h), h the number of   *)
(* non-air cells from the anchor's row upward in that column up to the     *)
(* first air cell; height 2 at column offset 1 gives (JUMP, 4).            *)
RECURSIVE RunUp(_, _, _)
RunUp(g, x, col) == IF x < 0 \/ g[x][col] = AIR THEN 0 ELSE 1 + RunUp(g, x - 1, col)
ObstacleAhead(g, pos) == {y \in 0..2 : IsObstacleCode(g[pos[1]][pos[2] + y])}
Grounded(g, pos) == g[pos[1] + 1][pos[2]] # AIR
C5_ObstacleHopTwiceHeight ==
    (/\ Returned
     /\ obs.pos[1] < 15 /\ obs.pos[2] < 15
     /\ last_run # JUMP
     /\ Grounded(game_area, obs.pos)
     /\ ObstacleAhead(game_area, obs.pos) # {})
    => /\ action = JUMP
       /\ duration = 2 * RunUp(game_area, obs.pos[1],
                               obs.pos[2] + Least(ObstacleAhead(game_area, obs.pos)))

(* C6. Flying threat: rules 1-4 not matching, the cycle before not JUMP,   *)
(* and the nearest enemy a FLY sprite fewer than 4 columns ahead,          *)
(* choose_action returns (JUMP, rowOffset + 10).                           *)
C6_FlyJump ==
    (/\ Returned
     /\ obs.seen
     /\ last_run # JUMP
     /\ ~ObstacleRule(obs.obstacle_info.v, obs.is_airborne.v)
     /\ ~PlatformRule(obs.platform.v, obs.obstacle_info.v)
     /\ ~GroundEnemyRule(obs.enemy_info.v)
     /\ obs.enemy_info.v[3] = FLY
     /\ obs.enemy_info.v[2] < 4)
    => (action = JUMP /\ duration = obs.enemy_info.v[1] + 10)

(* C7. Close ground threat: rules 1-3 not matching and the nearest enemy a *)
(* ground sprite (code below FLY) fewer than 2 columns ahead,              *)
(* choose_action returns (LEFT, 1) if prev_action was JUMP and (JUMP, 1)   *)
(* otherwise; the guard does not override it, and prev_action becomes the  *)
(* returned action.                                                        *)
C7_GroundThreat ==
    [][(/\ pc = "choose"
        /\ pc' = "run"
        /\ obs'.seen
        /\ ~ObstacleRule(obs'.obstacle_info.v, obs'.is_airborne.v)
        /\ ~PlatformRule(obs'.platform.v, obs'.obstacle_info.v)
        /\ obs'.enemy_info.v[3] < FLY
        /\ obs'.enemy_info.v[2] < 2)
       => /\ IF prev_action = JUMP THEN action' = LEFT ELSE action' = JUMP
          /\ duration' = 1
          /\ prev_action' = action']_vars
C7_Witness ==
    /\ Returned
    /\ obs.seen
    /\ ~ObstacleRule(obs.obstacle_info.v, obs.is_airborne.v)
    /\ ~PlatformRule(obs.platform.v, obs.obstacle_info.v)
    /\ obs.enemy_info.v = <<0, 1, GOOMBA>>
    /\ last_run = JUMP
    /\ action = LEFT
    /\ duration = 1
    /\ prev_action = LEFT

(* C8. Action translation protocol: in every call run_action(action,       *)
(* duration) all presses come before the first tick, the emulator is       *)
(* ticked exactly duration * act_freq times, and every pressed button is   *)
(* released after the last tick and before the call returns, so that no    *)
(* button stays held between cycles; JUMP presses RIGHT, SPRINT, JUMP and  *)
(* releases JUMP, SPRINT, RIGHT, RIGHT presses RIGHT, SPRINT and releases  *)
(* SPRINT, RIGHT, and LEFT or UP presses and releases its own button.      *)
PressOf(b) ==
    CASE b = LEFT -> "PRESS_ARROW_LEFT"
      [] b = RIGHT -> "PRESS_ARROW_RIGHT"
      [] b = UP -> "PRESS_ARROW_UP"
      [] b = JUMP -> "PRESS_BUTTON_A"
      [] b = SPRINT -> "PRESS_BUTTON_B"
ReleaseOf(b) ==
    CASE b = LEFT -> "RELEASE_ARROW_LEFT"
      [] b = RIGHT -> "RELEASE_ARROW_RIGHT"
      [] b = UP -> "RELEASE_ARROW_UP"
      [] b = JUMP -> "RELEASE_BUTTON_A"
      [] b = SPRINT -> "RELEASE_BUTTON_B"
Protocol(a, n) ==
    CASE a = JUMP ->
           <<PressOf(RIGHT), PressOf(SPRINT), PressOf(JUMP)>>
           \o [i \in 1..n |-> TICK]
           \o <<ReleaseOf(JUMP), ReleaseOf(SPRINT), ReleaseOf(RIGHT)>>
      [] a = RIGHT ->
           <<PressOf(RIGHT), PressOf(SPRINT)>>
           \o [i \in 1..n |-> TICK]
           \o <<ReleaseOf(SPRINT), ReleaseOf(RIGHT)>>
      [] OTHER -> <<PressOf(a)>> \o [i \in 1..n |-> TICK] \o <<ReleaseOf(a)>>
IsPrefix(s, t) == Len(s) <= Len(t) /\ \A i \in 1..Len(s) : s[i] = t[i]
Claimed(c) == c.action \in {JUMP, RIGHT, LEFT, UP}
C8_ButtonProtocol ==
    [][/\ (call' # NoCall /\ Claimed(call')) =>
             IsPrefix(events', Protocol(call'.action, call'.duration * act_freq'))
       /\ (call # NoCall /\ Claimed(call) /\ call' = NoCall) =>
             /\ events = Protocol(call.action, call.duration * act_freq)
             /\ held' = {}]_vars
C8_Witness ==
    /\ call = NoCall
    /\ last_run = JUMP
    /\ act_freq = 2
    /\ Len(events) = 12
    /\ held = {}

(* C9 as stated. get_platform_above returns a non-sentinel (vertical       *)
(* distance, column offset) only for a cell strictly above the anchor's    *)
(* row and 1 to 6 columns ahead that holds a solid code, has air in the    *)
(* cell above-left of it (one row up, one column left) and air in its      *)
(* same-row left neighbour; and it returns (100, 100) when no cell of the  *)
(* window has this pattern.                                                *)
PlatformWindow(pos) == {c \in (0..(pos[1] - 1)) \X (1..6) : pos[2] + c[2] <= Cols - 1}
EdgeAboveLeft(g, x, col) ==
    /\ IsPlatformCode(g[x][col])
    /\ x >= 1 /\ g[x - 1][col - 1] = AIR
    /\ g[x][col - 1] = AIR
C9_PlatformEdgeAboveLeft ==
    Observed =>
        LET p == obs.platform
            mx == obs.pos[1]
            my == obs.pos[2]
            edges == {c \in PlatformWindow(obs.pos) :
                        EdgeAboveLeft(game_area, c[1], my + c[2])}
        IN  /\ (~p.err /\ p.v # <<100, 100>>) =>
                  /\ p.v[1] >= 1 /\ p.v[1] <= mx
                  /\ p.v[2] \in 1..6
                  /\ EdgeAboveLeft(game_area, mx - p.v[1], my + p.v[2])
            /\ edges = {} => (~p.err /\ p.v = <<100, 100>>)
(* C9 as amended. get_platform_above returns a non-sentinel (vertical      *)
(* distance, column offset) only for a cell at least two rows above the    *)
(* anchor's row and 1 to 6 columns ahead that holds BRICK or BLOCK, has    *)
(* air in the cell directly above it (one row up, same column; for a cell  *)
(* of the top row the index -1 reads the bottom row) and air in its        *)
(* same-row left neighbour; the cell above-left is not read. When no cell  *)
(* of rows 0..mx-2 in the six columns has this pattern the call returns    *)
(* (100, 100), except that for mx >= 2 and an anchor column past cols - 7  *)
(* it raises IndexError on the first column beyond the grid.               *)
EdgeAbove(g, x, col) ==
    /\ IsPlatformCode(g[x][col])
    /\ g[IF x = 0 THEN Rows - 1 ELSE x - 1][col] = AIR
    /\ g[x][col - 1] = AIR
EdgesInReach(g, pos) ==
    {c \in (0..(pos[1] - 2)) \X (1..6) :
        pos[2] + c[2] <= Cols - 1 /\ EdgeAbove(g, c[1], pos[2] + c[2])}
C9_PlatformEdgeAbove ==
    Observed =>
        LET p == obs.platform
            mx == obs.pos[1]
            my == obs.pos[2]
            edges == EdgesInReach(game_area, obs.pos)
        IN  IF edges # {}
            THEN /\ ~p.err
                 /\ p.v # <<100, 100>>
                 /\ p.v[1] >= 2
                 /\ <<mx - p.v[1], p.v[2]>> \in edges
            ELSE IF mx >= 2 /\ my + 6 > Cols - 1 THEN p.err
            ELSE ~p.err /\ p.v = <<100, 100>>
C9_Witness ==
    /\ Observed
    /\ ~obs.platform.err
    /\ obs.platform.v # <<100, 100>>
    /\ game_area[obs.pos[1] - obs.platform.v[1] - 1][obs.pos[2] + obs.platform.v[2] - 1] # AIR

(* C10. Whenever get_pit_info returns a non-sentinel (start, vertical      *)
(* offset, span), the column at offset start is the nearest column at or   *)
(* ahead of the anchor with air one row below the anchor and in the lowest *)
(* row, and the far edge reported is an obstacle-class cell (BLOCK..PIPE)  *)
(* strictly beyond the pit's start column (span > start) with no           *)
(* obstacle-class cell in any column between the two.                      *)
AirBelowAndBottom(g, pos, col) == g[pos[1] + 1][col] = AIR /\ g[Rows - 1][col] = AIR
C10_PitFarEdgeBeyondStart ==
    (Observed /\ ~obs.pit_info.err /\ obs.pit_info.v # <<100, 100, 100>>) =>
        LET start == obs.pit_info.v[1]
            row == obs.pos[1] - obs.pit_info.v[2]
            span == obs.pit_info.v[3]
            my == obs.pos[2]
        IN  /\ start >= 0
            /\ AirBelowAndBottom(game_area, obs.pos, my + start)
            /\ \A k \in 0..(start - 1) : ~AirBelowAndBottom(game_area, obs.pos, my + k)
            /\ row \in 0..Rows-1 /\ my + span \in 0..Cols-1
            /\ IsPitEdgeCode(game_area[row][my + span])
            /\ span > start
            /\ \A k \in (start + 1)..(span - 1), r \in 0..Rows-1 :
                  ~IsPitEdgeCode(game_area[r][my + k])

====
